---- MODULE Spec2Model ----
(***************************************************************************)
(* A model of fix_syntax.py: one run reads index.html, applies re.sub with *)
(* a fixed pattern, falls back to a line scan when the regex changed       *)
(* nothing, and rewrites index.html.                                       *)
(*                                                                         *)
(* Text is a sequence of tokens.  Each token stands for the literal piece  *)
(* of text written in its definition; the text of a sequence is the        *)
(* concatenation of its tokens.  The tokens are cut so that every literal  *)
(* the program searches for ('${item.hasImage ?', '</script>', "` : ''}",  *)
(* '?', '\n', and the literals of the regex) is a run of whole tokens and  *)
(* cannot start or end inside a token of the documents considered.         *)
(* Python's 0-based line indices are kept: lines[i] is At(lines, i).       *)
(***************************************************************************)
EXTENDS Integers, Sequences, FiniteSets, TLC

\* ------------------------------------------------------------------ bounds
\* the longest document of ordinary lines
MaxLines == 7
\* the longest document that may hold the regex-shaped line, or CRLF line ends
MaxShortLines == 5
\* the runs of the script in a behaviour
MaxRuns == 2

\* ------------------------------------------------------------------ tokens
HasImage == "${item.hasImage"
SP == " "
QM == "?"
\* a backquote
BT == "BACKQUOTE"
COLON == ":"
\* two single quotes and a closing brace
QQB == "QUOTES-BRACE"
Script == "<script>"
EndScript == "</script>"
EndDiv == "</div>"
GT == ">"
DivId == "<divid=\"img-container-${cleanId}\""
DivClass == "<divclass=\"image-skeleton\""
Txt == "x"
NL == "\n"
CRLF == "\r\n"
Indent28 == "                            "
NewDiv == "                                <div id=\"img-container-${cleanId}\" class=\"image-container\" data-entry-id=\"${cleanId}\" style=\"display: flex; flex-direction: column; gap: 8px; margin-top: 12px;\">"
NewSkeleton == "                                    <div class=\"image-skeleton\" style=\"width:100%; height:200px; border-radius:8px;\"></div>"
NewSmall == "                                    <small style=\"color: var(--text-muted); font-size: 0.75rem; text-align: center;\">(camera) Loading...</small>"
NewEndDiv == "                                </div>"

\* Python's None for start_idx and end_idx (line indices are >= 0).
None == -1

\* ------------------------------------------------------- string operations
\* pat in s
Contains(s, pat) ==
  \E k \in 0..(Len(s) - Len(pat)) : SubSeq(s, k + 1, k + Len(pat)) = pat

\* lines[i], 0-based
At(ls, i) == ls[i + 1]

\* content.split('\n')
Split(s) ==
  LET RECURSIVE sp(_, _)
      sp(k, cur) ==
        IF k > Len(s) THEN <<cur>>
        ELSE IF s[k] = NL THEN <<cur>> \o sp(k + 1, <<>>)
        ELSE sp(k + 1, Append(cur, s[k]))
  IN sp(1, <<>>)

\* sep.join(ls)
JoinWith(ls, sep) ==
  LET RECURSIVE jn(_)
      jn(k) == IF k > Len(ls) THEN <<>>
               ELSE IF k = Len(ls) THEN ls[k]
               ELSE ls[k] \o <<sep>> \o jn(k + 1)
  IN jn(1)

\* '\n'.join(lines)
Join(ls) == JoinWith(ls, NL)

\* line.split('?')[0]
BeforeFirstQM(line) ==
  LET RECURSIVE bf(_)
      bf(k) == IF k > Len(line) \/ line[k] = QM THEN <<>>
               ELSE <<line[k]>> \o bf(k + 1)
  IN bf(1)

\* f.read() of a file opened in text mode: universal newlines
Decode(bytes) == [k \in 1..Len(bytes) |-> IF bytes[k] = CRLF THEN NL ELSE bytes[k]]

\* f.write() in text mode on a POSIX system: '\n' is written as it is
Encode(s) == s

\* ------------------------------------------------------------------ re.sub
(***************************************************************************)
(* The pattern is compiled with re.VERBOSE | re.DOTALL.  Under VERBOSE     *)
(* every unescaped blank and line break of the pattern is dropped, so the  *)
(* pattern that runs is                                                    *)
(*   (\$\{item\.hasImage\?`)<divid="img-container-\$\{cleanId\}"[^>]*>     *)
(*   <divclass="image-skeleton"[^>]*></div></div><script>.*?</script>\s+   *)
(*   (`:''}\s+</div>)                                                      *)
(***************************************************************************)
Group1 == <<HasImage, QM, BT>>
CloseNoSpace == <<BT, COLON, QQB>>

\* \s
IsSpace(t) == t \in {SP, NL, Indent28}

\* tokens with no '>' in them: what [^>]* runs over
GtFree(t) == t \in {HasImage, SP, QM, BT, COLON, QQB, Txt, NL, Indent28, DivId, DivClass}

\* tokens whose only '>' is their last character: where [^>]*> can end
GtLast(t) == t \in {GT, Script, EndScript, EndDiv, NewEndDiv}

\* the index after the longest run of tokens satisfying the test from p on
SkipSpace(s, p) ==
  LET RECURSIVE sk(_)
      sk(k) == IF k <= Len(s) /\ IsSpace(s[k]) THEN sk(k + 1) ELSE k
  IN sk(p)

SkipGtFree(s, p) ==
  LET RECURSIVE sk(_)
      sk(k) == IF k <= Len(s) /\ GtFree(s[k]) THEN sk(k + 1) ELSE k
  IN sk(p)

IsAt(s, p, pat) == p + Len(pat) - 1 <= Len(s) /\ SubSeq(s, p, p + Len(pat) - 1) = pat

\* [^>]*> from p: the index after the closing '>', or 0
TagRest(s, p) ==
  LET q == SkipGtFree(s, p)
  IN IF q <= Len(s) /\ GtLast(s[q]) THEN q + 1 ELSE 0

\* \s+(`:''}\s+</div>) from p: <<start of group 2, index after the match>>, or <<0, 0>>
ClosingTail(s, p) ==
  LET g == SkipSpace(s, p)
      h == SkipSpace(s, g + Len(CloseNoSpace))
  IN IF g > p /\ IsAt(s, g, CloseNoSpace) /\ h > g + Len(CloseNoSpace)
        /\ IsAt(s, h, <<EndDiv>>)
     THEN <<g, h + 1>> ELSE <<0, 0>>

\* .*?</script> followed by the tail, from p: the lazy quantifier takes the
\* first '</script>' after which the rest of the pattern matches
LazyToClosingTail(s, p) ==
  LET RECURSIVE lz(_)
      lz(k) == IF k > Len(s) THEN <<0, 0>>
               ELSE IF s[k] = EndScript /\ ClosingTail(s, k + 1)[1] # 0 THEN ClosingTail(s, k + 1)
               ELSE lz(k + 1)
  IN lz(p)

\* the match of the pattern that starts at p:
\* <<start of group 2, index after the match>>, or <<0, 0>>
MatchAt(s, p) ==
  IF ~(IsAt(s, p, Group1) /\ IsAt(s, p + 3, <<DivId>>)) THEN <<0, 0>>
  ELSE LET a == TagRest(s, p + 4)
       IN IF a = 0 \/ ~IsAt(s, a, <<DivClass>>) THEN <<0, 0>>
          ELSE LET b == TagRest(s, a + 1)
               IN IF b = 0 \/ ~IsAt(s, b, <<EndDiv, EndDiv, Script>>) THEN <<0, 0>>
                  ELSE LazyToClosingTail(s, b + 3)

\* the replacement template with \1 and \2 filled in
Replacement(g1, g2) ==
  g1 \o <<NL, NewDiv, NL, NewSkeleton, NL, NewSmall, NL, NewEndDiv, NL, Indent28>> \o g2

\* re.sub(pattern, replacement, content): every match, leftmost first
RegexSub(s) ==
  LET RECURSIVE rs(_)
      rs(p) ==
        IF p > Len(s) THEN <<>>
        ELSE LET m == MatchAt(s, p)
             IN IF m[2] = 0 THEN <<s[p]>> \o rs(p + 1)
                ELSE Replacement(Group1, SubSeq(s, m[1], m[2] - 1)) \o rs(m[2])
  IN rs(1)
\* ------------------------------------------------------- the line-based scan
StartMarker == <<HasImage, SP, QM>>
EndMarker == <<EndScript>>
CloseMarker == <<BT, SP, COLON, SP, QQB>>

\* a variant of StartCond without the test of start_idx: every later line with
\* the marker moves start_idx
StartCondEveryLine(line, s) == Contains(line, StartMarker)

\* '${item.hasImage ?' in line and start_idx is None
StartCond(line, s) == Contains(line, StartMarker) /\ s = None

\* '</script>' in line and start_idx is not None and end_idx is None
EndCond(line, s, e) == Contains(line, EndMarker) /\ s # None /\ e = None

\* i + 2 < len(lines) and "` : ''}" in lines[i+1]
Confirmed(ls, k) == k + 2 < Len(ls) /\ Contains(At(ls, k + 1), CloseMarker)

\* a variant of ScanNext without the break
ScanNextNoBreak(ls, k, accepted) ==
  IF k + 1 < Len(ls) THEN <<k + 1, "scan">> ELSE <<k, "decide">>

\* where the loop goes after iteration k: break once end_idx is assigned,
\* otherwise the next line, or past the loop after the last one
ScanNext(ls, k, accepted) ==
  IF accepted THEN <<k, "decide">>
  ELSE IF k + 1 < Len(ls) THEN <<k + 1, "scan">>
  ELSE <<k, "decide">>

\* the truth value Python gives an index or None: None and 0 are false
Truthy(v) == v # None /\ v # 0

\* if start_idx and end_idx
BothFound(s, e) == Truthy(s) /\ Truthy(e)

\* new_lines
NewLines(startLine) ==
  << BeforeFirstQM(startLine) \o <<QM, SP, BT>>,
     <<NewDiv>>, <<NewSkeleton>>, <<NewSmall>>, <<NewEndDiv>>,
     <<Indent28>> \o CloseMarker >>

\* a variant of Splice for lines[s:e] = new: the closing line is kept
SpliceKeepsEndLine(ls, s, e, new) ==
  SubSeq(ls, 1, s) \o new \o SubSeq(ls, e + 1, Len(ls))

\* lines[s:e+1] = new
Splice(ls, s, e, new) == SubSeq(ls, 1, s) \o new \o SubSeq(ls, e + 2, Len(ls))

\* ------------------------------------------------------------- documents
PlainLine == <<Txt>>
StartLine == <<HasImage, SP, QM, SP, BT>>
ScriptLine == <<Script, Txt, EndScript>>
CloseLine == <<BT, SP, COLON, SP, QQB>>
RegexLine == <<HasImage, QM, BT, DivId, GT, DivClass, GT, EndDiv, EndDiv,
               Script, Txt, EndScript, SP, BT, COLON, QQB, SP, EndDiv>>
OrdinaryKinds == {PlainLine, StartLine, ScriptLine, CloseLine}
LineKinds == OrdinaryKinds \cup {RegexLine}
LineEnds == {NL, CRLF}

\* the sequences of 1..n lines of the given kinds
LineSeqs(kinds, n) == UNION {[1..k -> kinds] : k \in 1..n}

\* index.html before the first run: up to MaxLines ordinary lines ended by
\* '\n', or up to MaxShortLines lines of any kind with either line end
Documents ==
  { Join(ls) : ls \in LineSeqs(OrdinaryKinds, MaxLines) }
  \cup { JoinWith(ls, e) : ls \in LineSeqs(LineKinds, MaxShortLines), e \in LineEnds }

\* ----------------------------------------------------------------- state
VARIABLES
  file,           \* the content of index.html
  backup,         \* index.html.backup: <<>> while there is none, else <<content>>
  pc,             \* where the run is
  content,        \* content
  content_fixed,  \* content_fixed
  lines,          \* lines
  i,              \* the loop index i
  start_idx,      \* start_idx
  end_idx,        \* end_idx
  stdout,         \* what was printed
  status,         \* the exit status, None while running
  run,            \* the number of this run
  orig,           \* index.html as it was when this run started
  nwrites         \* the f.write calls of this run

vars == <<file, backup, pc, content, content_fixed, lines, i, start_idx, end_idx,
          stdout, status, run, orig, nwrites>>

MsgRegexFailed == <<"Regex approach didn't work, trying line-based...">>
MsgFixed(s, e) == <<"Fixed lines", s, e>>
MsgNotFound(s, e) == <<"Could not find problematic section.", s, e>>
MsgSuccess == <<"File fixed successfully!">>
MsgBackup == <<"Backup saved as index.html.backup">>

\* the program's variables before the script has assigned them
Fresh ==
  /\ pc = "read"
  /\ content = <<>>
  /\ content_fixed = <<>>
  /\ lines = <<>>
  /\ i = 0
  /\ start_idx = None
  /\ end_idx = None
  /\ stdout = <<>>
  /\ status = None
  /\ nwrites = 0

Init ==
  /\ file \in Documents
  /\ backup = <<>>
  /\ orig = file
  /\ run = 1
  /\ Fresh

\* with open('index.html', 'r') as f: content = f.read()
ReadFile ==
  /\ pc = "read"
  /\ content' = Decode(file)
  /\ pc' = "sub"
  /\ UNCHANGED <<file, backup, content_fixed, lines, i, start_idx, end_idx,
                 stdout, status, run, orig, nwrites>>

\* content_fixed = re.sub(...); the regex changed the content
RegexChanged ==
  /\ pc = "sub"
  /\ RegexSub(content) # content
  /\ content_fixed' = RegexSub(content)
  /\ pc' = "open"
  /\ UNCHANGED <<file, backup, content, lines, i, start_idx, end_idx,
                 stdout, status, run, orig, nwrites>>

\* content_fixed == content: enter the line-based branch up to the loop
RegexUnchanged ==
  /\ pc = "sub"
  /\ RegexSub(content) = content
  /\ content_fixed' = RegexSub(content)
  /\ stdout' = Append(stdout, MsgRegexFailed)
  /\ lines' = Split(content)
  /\ start_idx' = None
  /\ end_idx' = None
  /\ i' = 0
  /\ pc' = "scan"
  /\ UNCHANGED <<file, backup, content, status, run, orig, nwrites>>

\* one iteration of for i, line in enumerate(lines)
ScanStep ==
  /\ pc = "scan"
  /\ LET line == At(lines, i)
         s == IF StartCond(line, start_idx) THEN i ELSE start_idx
         accepted == EndCond(line, s, end_idx) /\ Confirmed(lines, i)
         next == ScanNext(lines, i, accepted)
     IN /\ start_idx' = s
        /\ end_idx' = IF accepted THEN i + 1 ELSE end_idx
        /\ i' = next[1]
        /\ pc' = next[2]
  /\ UNCHANGED <<file, backup, content, content_fixed, lines, stdout, status,
                 run, orig, nwrites>>

\* the branch that replaces lines start_idx..end_idx
Patch ==
  /\ pc = "decide"
  /\ BothFound(start_idx, end_idx)
  /\ lines' = Splice(lines, start_idx, end_idx, NewLines(At(lines, start_idx)))
  /\ content_fixed' = Join(lines')
  /\ stdout' = Append(stdout, MsgFixed(start_idx, end_idx))
  /\ pc' = "open"
  /\ UNCHANGED <<file, backup, content, i, start_idx, end_idx, status, run,
                 orig, nwrites>>

\* a variant of FailExit in which the file is rewritten before exit(1)
FailExitAfterWrite ==
  /\ pc = "decide"
  /\ ~BothFound(start_idx, end_idx)
  /\ stdout' = Append(stdout, MsgNotFound(start_idx, end_idx))
  /\ file' = Encode(content_fixed)
  /\ nwrites' = nwrites + 1
  /\ status' = 1
  /\ pc' = "exited"
  /\ UNCHANGED <<backup, content, content_fixed, lines, i, start_idx, end_idx,
                 run, orig>>

\* the else branch: print the diagnostic and exit(1)
FailExit ==
  /\ pc = "decide"
  /\ ~BothFound(start_idx, end_idx)
  /\ stdout' = Append(stdout, MsgNotFound(start_idx, end_idx))
  /\ status' = 1
  /\ pc' = "exited"
  /\ UNCHANGED <<file, backup, content, content_fixed, lines, i, start_idx,
                 end_idx, run, orig, nwrites>>

\* open('index.html', 'w'): the file is truncated
OpenForWrite ==
  /\ pc = "open"
  /\ file' = <<>>
  /\ pc' = "write"
  /\ UNCHANGED <<backup, content, content_fixed, lines, i, start_idx, end_idx,
                 stdout, status, run, orig, nwrites>>

\* f.write(content_fixed) and the close of the file
WriteFile ==
  /\ pc = "write"
  /\ file' = Encode(content_fixed)
  /\ nwrites' = nwrites + 1
  /\ pc' = "report"
  /\ UNCHANGED <<backup, content, content_fixed, lines, i, start_idx, end_idx,
                 stdout, status, run, orig>>

\* the closing prints, and the end of the script
ReportSuccess ==
  /\ pc = "report"
  /\ stdout' = stdout \o <<MsgSuccess, MsgBackup>>
  /\ status' = 0
  /\ pc' = "exited"
  /\ UNCHANGED <<file, backup, content, content_fixed, lines, i, start_idx,
                 end_idx, run, orig, nwrites>>

\* the script is started again on the file a successful run left
Rerun ==
  /\ pc = "exited"
  /\ status = 0
  /\ run < MaxRuns
  /\ run' = run + 1
  /\ orig' = file
  /\ pc' = "read"
  /\ content' = <<>>
  /\ content_fixed' = <<>>
  /\ lines' = <<>>
  /\ i' = 0
  /\ start_idx' = None
  /\ end_idx' = None
  /\ stdout' = <<>>
  /\ status' = None
  /\ nwrites' = 0
  /\ UNCHANGED <<file, backup>>

Next ==
  \/ ReadFile
  \/ RegexChanged
  \/ RegexUnchanged
  \/ ScanStep
  \/ Patch
  \/ FailExit
  \/ OpenForWrite
  \/ WriteFile
  \/ ReportSuccess
  \/ Rerun

Spec == Init /\ [][Next]_vars
\* ----------------------------------------------------------------- claims
\* the lines of index.html as this run read them
InputLines == Split(Decode(orig))

Printed(m) == \E k \in 1..Len(stdout) : stdout[k] = m

Indices(ls) == 0..(Len(ls) - 1)
StartsAt(ls, k) == Contains(At(ls, k), StartMarker)
ScriptEndsAt(ls, k) == Contains(At(ls, k), EndMarker)
ClosesAt(ls, k) == Contains(At(ls, k), CloseMarker)

\* this run replaced a span in the line-based branch
PatchedByScan == Printed(MsgFixed(start_idx, end_idx))

\* the input lines with the span a..c replaced by the replacement lines
Replaced(ls, a, c) ==
  SubSeq(ls, 1, a) \o NewLines(At(ls, a)) \o SubSeq(ls, c + 2, Len(ls))

\* exactly one target fragment: one start line a, one '</script>' line b after
\* it, one closing line right after b, and no other line with a marker
OneFragment(ls) ==
  \E a, b \in Indices(ls) :
    /\ a < b /\ b + 1 < Len(ls)
    /\ \A k \in Indices(ls) : StartsAt(ls, k) <=> k = a
    /\ \A k \in Indices(ls) : ScriptEndsAt(ls, k) <=> k = b
    /\ \A k \in Indices(ls) : ClosesAt(ls, k) <=> k = b + 1

FragmentStart(ls) == CHOOSE a \in Indices(ls) : StartsAt(ls, a)
FragmentClose(ls) == CHOOSE c \in Indices(ls) : ClosesAt(ls, c)

\* C1: a run on a document with exactly one target fragment, wherever the
\* fragment sits, ends in success with the fragment's span replaced by the
\* replacement lines and every other line as it was.
C1_OneFragmentIsReplaced ==
  (pc = "exited" /\ OneFragment(InputLines)) =>
    /\ status = 0
    /\ Split(file) = Replaced(InputLines, FragmentStart(InputLines),
                              FragmentClose(InputLines))

\* C2: when the line-based branch wrote the file, the written lines are the
\* input lines below start_idx, then the replacement lines, then the input
\* lines above end_idx, each unchanged and in order.
C2_FrameOfLineScan ==
  (nwrites = 1 /\ PatchedByScan) =>
    LET in == InputLines
        out == Split(file)
        new == NewLines(At(in, start_idx))
        shift == Len(new) - (end_idx - start_idx + 1)
    IN /\ Len(out) = Len(in) + shift
       /\ \A k \in 0..(start_idx - 1) : At(out, k) = At(in, k)
       /\ \A k \in 0..(Len(new) - 1) : At(out, start_idx + k) = new[k + 1]
       /\ \A k \in (end_idx + 1)..(Len(in) - 1) : At(out, k + shift) = At(in, k)

\* a line-based write with lines on both sides of the span
C2_Witness ==
  /\ nwrites = 1 /\ PatchedByScan
  /\ start_idx >= 2
  /\ end_idx + 2 < Len(InputLines)

\* C3: with no start marker in any line the run prints the diagnostic with
\* start_idx=None, exits with status 1 and never writes index.html.
C3_NoStartMarkerFails ==
  (\A k \in Indices(InputLines) : ~StartsAt(InputLines, k)) =>
    /\ file = orig
    /\ nwrites = 0
    /\ pc = "exited" => (status = 1 /\ Printed(MsgNotFound(None, None)))

\* an end marker at or after the first start marker with the closing marker
\* in the next line or the one after it
EndConfirmedInWindow(ls) ==
  \E a, b \in Indices(ls) :
    /\ StartsAt(ls, a) /\ \A k \in 0..(a - 1) : ~StartsAt(ls, k)
    /\ b >= a /\ ScriptEndsAt(ls, b)
    /\ \E c \in {b + 1, b + 2} : c < Len(ls) /\ ClosesAt(ls, c)

\* C4: with a start marker but no end marker confirmed in the look-ahead
\* window the run prints the diagnostic with end_idx=None, exits with status
\* 1 and leaves index.html as it was.
C4_NoEndMarkerFails ==
  ((\E k \in Indices(InputLines) : StartsAt(InputLines, k))
      /\ ~EndConfirmedInWindow(InputLines)) =>
    /\ file = orig
    /\ nwrites = 0
    /\ pc = "exited" =>
         (status = 1 /\ \E a \in Indices(InputLines) : Printed(MsgNotFound(a, None)))

\* C5: a run on the file a successful run wrote leaves the file as that run
\* wrote it.
C5_SecondRunChangesNothing ==
  (run >= 2 /\ pc = "exited") => file = orig

\* the steps a run can still take are at most this many
StepsLeft ==
  CASE pc = "read" -> Len(file) + 10
    [] pc = "sub" -> Len(content) + 9
    [] pc = "scan" -> (Len(lines) - i) + 4
    [] pc = "decide" -> 4
    [] pc = "open" -> 3
    [] pc = "write" -> 2
    [] pc = "report" -> 1
    [] pc = "exited" -> 0

\* a run that has not exited can take its next step (after re.sub the two
\* steps RegexChanged and RegexUnchanged have complementary conditions)
CanStep ==
  CASE pc = "read" -> ENABLED ReadFile
    [] pc = "sub" -> TRUE
    [] pc = "scan" -> ENABLED ScanStep
    [] pc = "decide" -> ENABLED Patch \/ ENABLED FailExit
    [] pc = "open" -> ENABLED OpenForWrite
    [] pc = "write" -> ENABLED WriteFile
    [] pc = "report" -> ENABLED ReportSuccess
    [] pc = "exited" -> TRUE

C6_State ==
  /\ nwrites <= 1
  /\ pc \in {"read", "sub", "scan", "decide", "open"} => (nwrites = 0 /\ file = orig)
  /\ status = 1 => (nwrites = 0 /\ file = orig)
  /\ pc \in {"report", "exited"} /\ status # 1 =>
       (nwrites = 1 /\ file = Encode(content_fixed))
  /\ pc # "exited" => (status = None /\ StepsLeft > 0 /\ CanStep)

\* C6: the file is as the run found it until the one write, which happens
\* after content_fixed has its final value; a run that exits with status 1
\* wrote nothing, a run that reports success wrote content_fixed once; and
\* every run ends: a run that has not exited can take a step, and each step
\* of a run lowers the number of steps left.  (Every reachable state is the
\* first or the second state of a step: each initial state can take ReadFile.)
C6_WriteOnceAndTerminate ==
  /\ [][C6_State /\ C6_State']_vars
  /\ [][nwrites' # nwrites /\ run' = run =>
          /\ pc = "write"
          /\ content_fixed' = content_fixed
          /\ file' = Encode(content_fixed)]_vars
  /\ [][run' = run => StepsLeft' < StepsLeft]_vars

\* both ends of a run have been reached: a run that wrote and reported
\* success, and after it a run that exited with status 1
C6_Witness ==
  /\ run = 2 /\ pc = "exited" /\ status = 1 /\ nwrites = 0

\* C7: when a run reports success, index.html.backup holds the content
\* index.html had before the run.
C7_BackupSaved ==
  status = 0 => backup = <<orig>>

\* C8: when the scan has set both start_idx and end_idx, the run replaces
\* the span, writes the file and reports success.
C8_BothFoundIsPatched ==
  (pc = "exited" /\ start_idx # None /\ end_idx # None) =>
    /\ status = 0
    /\ Split(file) = Replaced(InputLines, start_idx, end_idx)

C10_EndIdxNoneInLoop ==
  pc = "scan" => end_idx = None

\* an iteration in which the other conjuncts of the test hold
C10_Witness ==
  /\ pc = "scan"
  /\ start_idx # None
  /\ ScriptEndsAt(lines, i)
  /\ Confirmed(lines, i)
====
